---- MODULE Spec2Model ----
(***************************************************************************)
(* State-machine model of ncollide's CollisionObject and of its dirty     *)
(* flags, CollisionObjectUpdateFlags                                       *)
(* (src/pipeline/object/collision_object.rs).                              *)
(*                                                                         *)
(* The external value types are modelled by small integers: an Isometry   *)
(* is a number 0..MaxPos, CollisionGroups a number 0..MaxGroups, a        *)
(* GeometricQueryType is its query limit 0..MaxMargin, the payload T a    *)
(* number 0..MaxData, a handle a number 0..MaxHandle.  Option<X> is the   *)
(* empty tuple (None) or a one-element tuple (Some).  The shape behind a  *)
(* ShapeHandle is a record [deformable, coords].                          *)
(***************************************************************************)
EXTENDS Integers, FiniteSets, Sequences, TLC

\* ------------------------------------------------------------------ bounds
MaxPos == 1
MaxHandle == 0
MaxGroups == 1
MaxMargin == 1
MaxData == 1
MaxCoord == 1
MaxComp == 1
MaxCompC == 1

Positions == 0..MaxPos
Handles == 0..MaxHandle
Groups == 0..MaxGroups
QueryTypes == 0..MaxMargin
Payloads == 0..MaxData
Coords == 0..MaxCoord

None == << >>
Some(x) == << x >>
Option(S) == {None} \cup {Some(x) : x \in S}

Shapes == {[deformable |-> FALSE, coords |-> 0]}
            \cup {[deformable |-> TRUE, coords |-> c] : c \in Coords}

\* ------------------------------------------- CollisionObjectUpdateFlags: u8
POSITION_CHANGED == 1
PREDICTED_POSITION_CHANGED == 2
SHAPE_CHANGED == 4
COLLISION_GROUPS_CHANGED == 8
QUERY_TYPE_CHANGED == 16

RECURSIVE BitAnd(_, _)
BitAnd(a, b) ==
    IF a = 0 \/ b = 0 THEN 0
    ELSE (a % 2) * (b % 2) + 2 * BitAnd(a \div 2, b \div 2)

RECURSIVE BitOr(_, _)
BitOr(a, b) ==
    IF a = 0 THEN b
    ELSE IF b = 0 THEN a
    ELSE (IF a % 2 = 1 \/ b % 2 = 1 THEN 1 ELSE 0)
             + 2 * BitOr(a \div 2, b \div 2)

RECURSIVE BitXor(_, _)
BitXor(a, b) ==
    IF a = 0 THEN b
    ELSE IF b = 0 THEN a
    ELSE (((a % 2) + (b % 2)) % 2) + 2 * BitXor(a \div 2, b \div 2)

\* bitflags: all() is the OR of every declared constant, empty() is 0
all ==
    BitOr(POSITION_CHANGED, BitOr(PREDICTED_POSITION_CHANGED,
        BitOr(SHAPE_CHANGED, BitOr(COLLISION_GROUPS_CHANGED, QUERY_TYPE_CHANGED))))
empty == 0
FlagWords == 0..all
FlagConsts ==
    {POSITION_CHANGED, PREDICTED_POSITION_CHANGED, SHAPE_CHANGED,
     COLLISION_GROUPS_CHANGED, QUERY_TYPE_CHANGED}

is_empty(f) == f = empty
intersects(f, mask) == BitAnd(f, mask) # 0

needs_broad_phase_update(f) == ~is_empty(f)

\* variant: QUERY_TYPE_CHANGED is left out of the mask
needs_narrow_phase_update_no_query(f) ==
    intersects(f, BitOr(POSITION_CHANGED, BitOr(SHAPE_CHANGED, COLLISION_GROUPS_CHANGED)))

\* variant: the mask also holds PREDICTED_POSITION_CHANGED
needs_narrow_phase_update_any(f) ==
    intersects(f, all)

needs_narrow_phase_update(f) ==
    intersects(f, BitOr(POSITION_CHANGED, BitOr(SHAPE_CHANGED,
                    BitOr(COLLISION_GROUPS_CHANGED, QUERY_TYPE_CHANGED))))

\* variant: the mask also holds COLLISION_GROUPS_CHANGED
needs_bounding_volume_update_groups(f) ==
    intersects(f, BitOr(POSITION_CHANGED, BitOr(SHAPE_CHANGED,
                    BitOr(COLLISION_GROUPS_CHANGED, QUERY_TYPE_CHANGED))))

needs_bounding_volume_update(f) ==
    intersects(f, BitOr(POSITION_CHANGED, BitOr(SHAPE_CHANGED, QUERY_TYPE_CHANGED)))

\* variant: the mask also holds POSITION_CHANGED
needs_broad_phase_redispatch_position(f) ==
    intersects(f, BitOr(POSITION_CHANGED, BitOr(SHAPE_CHANGED,
                    BitOr(COLLISION_GROUPS_CHANGED, QUERY_TYPE_CHANGED))))

needs_broad_phase_redispatch(f) ==
    intersects(f, BitOr(SHAPE_CHANGED, BitOr(COLLISION_GROUPS_CHANGED, QUERY_TYPE_CHANGED)))

\* ------------------------------------------------------------------- state
VARIABLES
    proxy_handle,        \* Option<BroadPhaseProxyHandle>
    graph_index,         \* Option<CollisionObjectGraphIndex>
    position,            \* Isometry
    predicted_position,  \* Option<Isometry>
    shape,               \* the shape behind the ShapeHandle
    collision_groups,    \* CollisionGroups
    query_type,          \* GeometricQueryType
    update_flags,        \* CollisionObjectUpdateFlags
    data,                \* T
    pc,                  \* "running", or "panicked" once an expect() failed
    calls,               \* history: the flag-raising calls since the last clear
    va, vb, vc,          \* three Vec3 values
    basis                \* the list returned by the last orthogonal_subspace_basis

fields == << proxy_handle, graph_index, position, predicted_position, shape,
             collision_groups, query_type, update_flags, data >>
objvars == << proxy_handle, graph_index, position, predicted_position, shape,
              collision_groups, query_type, update_flags, data, pc, calls >>
vecvars == << va, vb, vc, basis >>
vars == << proxy_handle, graph_index, position, predicted_position, shape,
           collision_groups, query_type, update_flags, data, pc, calls,
           va, vb, vc, basis >>

\* The history keeps the names of the calls made since the last
\* clear_update_flags.  Until the first clear it is {"new"}: the construction
\* raised every flag, so the calls that follow it add nothing.  Once the
\* caller has written the flag word through update_flags_mut the names no
\* longer determine it, and the history keeps just that fact.
Record(name) ==
    IF "update_flags_mut" \in calls \/ "new" \in calls
      THEN calls
      ELSE calls \cup {name}

\* -------------------------------------------------------------- Vec3<T>
\* (src/dim3/vec3.rs)  The scalar type T is modelled by the integers.  A
\* vector divided by a norm is kept exact as a record [num, den2] that stands
\* for num / sqrt(den2); den2 = 0 is a division by a zero norm.
vec3(x, y, z) == [x |-> x, y |-> y, z |-> z]

Vectors(max) ==
    {vec3(x, y, z) : x \in (0 - max)..max, y \in (0 - max)..max, z \in (0 - max)..max}

add(self, other) == vec3(self.x + other.x, self.y + other.y, self.z + other.z)

sub(self, other) == vec3(self.x - other.x, self.y - other.y, self.z - other.z)

scalar_mul(self, s) == vec3(self.x * s, self.y * s, self.z * s)

neg(self) == vec3(0 - self.x, 0 - self.y, 0 - self.z)

dot(self, other) == self.x * other.x + self.y * other.y + self.z * other.z

sqnorm(self) == dot(self, self)

normalized(self) == [num |-> self, den2 |-> sqnorm(self)]

\* variant: the second component takes other.y for other.z
cross_slip(self, other) ==
    vec3(self.y * other.z - self.z * other.y,
         self.z * other.x - self.x * other.y,
         self.x * other.y - self.y * other.x)

cross(self, other) ==
    vec3(self.y * other.z - self.z * other.y,
         self.z * other.x - self.x * other.z,
         self.x * other.y - self.y * other.x)

zero == vec3(0, 0, 0)

abs(n) == IF n < 0 THEN 0 - n ELSE n

\* variant: the tie |x| = |y| takes the first branch (>= for >)
orthogonal_subspace_basis_tie(self) ==
    LET a == IF abs(self.x) >= abs(self.y)
               THEN normalized(vec3(self.z, 0, 0 - self.x))
               ELSE normalized(vec3(0, 0 - self.z, self.y))
    IN  << a, [num |-> cross(a.num, self), den2 |-> a.den2] >>

\* variant: the comparison is turned round (< for >)
orthogonal_subspace_basis_flipped(self) ==
    LET a == IF abs(self.x) < abs(self.y)
               THEN normalized(vec3(self.z, 0, 0 - self.x))
               ELSE normalized(vec3(0, 0 - self.z, self.y))
    IN  << a, [num |-> cross(a.num, self), den2 |-> a.den2] >>

\* a is num / l, so a.cross(self) is cross(num, self) / l
orthogonal_subspace_basis(self) ==
    LET a == IF abs(self.x) > abs(self.y)
               THEN normalized(vec3(self.z, 0, 0 - self.x))
               ELSE normalized(vec3(0, 0 - self.z, self.y))
    IN  << a, [num |-> cross(a.num, self), den2 |-> a.den2] >>

\* The object specifications carry no vectors.
NoVectors == va = zero /\ vb = zero /\ vc = zero /\ basis = << >>

\* Vector operations applied to the three values; a result that is stored
\* back must stay within the modelled components.
translate(t) ==
    /\ add(va, t) \in Vectors(MaxComp)
    /\ va' = add(va, t)
    /\ UNCHANGED << vb, vc, basis >>
    /\ UNCHANGED objvars

VecSub ==
    /\ sub(va, vb) \in Vectors(MaxComp)
    /\ va' = sub(va, vb)
    /\ UNCHANGED << vb, vc, basis >>
    /\ UNCHANGED objvars

VecNeg ==
    /\ va' = neg(va)
    /\ UNCHANGED << vb, vc, basis >>
    /\ UNCHANGED objvars

VecCross ==
    /\ cross(va, vb) \in Vectors(MaxComp)
    /\ va' = cross(va, vb)
    /\ UNCHANGED << vb, vc, basis >>
    /\ UNCHANGED objvars

scalar_mul_inplace(s) ==
    /\ scalar_mul(va, s) \in Vectors(MaxComp)
    /\ va' = scalar_mul(va, s)
    /\ UNCHANGED << vb, vc, basis >>
    /\ UNCHANGED objvars

VecBasis ==
    /\ basis' = orthogonal_subspace_basis(vc)
    /\ UNCHANGED << va, vb, vc >>
    /\ UNCHANGED objvars

\* --------------------------------------------------------------- operations
\* variant: the flags start as Default::default(), the empty word
new_default_flags(ph, gi, pos, sh, groups, qt, d) ==
    /\ proxy_handle = ph
    /\ graph_index = gi
    /\ position = pos
    /\ predicted_position = None
    /\ shape = sh
    /\ collision_groups = groups
    /\ data = d
    /\ query_type = qt
    /\ update_flags = empty

new(ph, gi, pos, sh, groups, qt, d) ==
    /\ proxy_handle = ph
    /\ graph_index = gi
    /\ position = pos
    /\ predicted_position = None
    /\ shape = sh
    /\ collision_groups = groups
    /\ data = d
    /\ query_type = qt
    /\ update_flags = all

Init ==
    /\ \E ph \in Option(Handles), gi \in Option(Handles), pos \in Positions,
          sh \in Shapes, groups \in Groups, qt \in QueryTypes, d \in Payloads :
            new(ph, gi, pos, sh, groups, qt, d)
    /\ pc = "running"
    /\ calls = {"new"}
    /\ NoVectors

\* variant: the index is stored in the proxy-handle slot
set_graph_index_into_proxy(index) ==
    /\ pc = "running"
    /\ proxy_handle' = index
    /\ UNCHANGED << graph_index, position, predicted_position, shape,
                    collision_groups, query_type, update_flags, data, pc, calls >>
    /\ UNCHANGED vecvars

set_graph_index(index) ==
    /\ pc = "running"
    /\ graph_index' = index
    /\ UNCHANGED << proxy_handle, position, predicted_position, shape,
                    collision_groups, query_type, update_flags, data, pc, calls >>
    /\ UNCHANGED vecvars

\* Hands out &mut update_flags: the caller may store any flag word f through
\* it.  Next draws the writes that toggle one flag; every other write is a
\* sequence of these.
update_flags_mut(f) ==
    /\ pc = "running"
    /\ update_flags' = f
    /\ calls' = {"update_flags_mut"}
    /\ UNCHANGED << proxy_handle, graph_index, position, predicted_position,
                    shape, collision_groups, query_type, data, pc >>
    /\ UNCHANGED vecvars

\* variant: the clear also drops the predicted position
clear_update_flags_and_prediction ==
    /\ pc = "running"
    /\ predicted_position' = None
    /\ update_flags' = empty
    /\ calls' = {}
    /\ UNCHANGED << proxy_handle, graph_index, position, shape,
                    collision_groups, query_type, data, pc >>
    /\ UNCHANGED vecvars

clear_update_flags ==
    /\ pc = "running"
    /\ update_flags' = empty
    /\ calls' = {}
    /\ UNCHANGED << proxy_handle, graph_index, position, predicted_position,
                    shape, collision_groups, query_type, data, pc >>
    /\ UNCHANGED vecvars

set_proxy_handle(handle) ==
    /\ pc = "running"
    /\ proxy_handle' = handle
    /\ UNCHANGED << graph_index, position, predicted_position, shape,
                    collision_groups, query_type, update_flags, data, pc, calls >>
    /\ UNCHANGED vecvars

\* variant: PREDICTED_POSITION_CHANGED is not raised
set_position_only_position(pos) ==
    /\ pc = "running"
    /\ position' = pos
    /\ predicted_position' = None
    /\ update_flags' = BitOr(update_flags, POSITION_CHANGED)
    /\ calls' = Record("set_position")
    /\ UNCHANGED << proxy_handle, graph_index, shape, collision_groups,
                    query_type, data, pc >>
    /\ UNCHANGED vecvars

\* variant: the predicted position is not reset
set_position_keep_prediction(pos) ==
    /\ pc = "running"
    /\ position' = pos
    /\ update_flags' = BitOr(BitOr(update_flags, POSITION_CHANGED),
                             PREDICTED_POSITION_CHANGED)
    /\ calls' = Record("set_position")
    /\ UNCHANGED << proxy_handle, graph_index, predicted_position, shape,
                    collision_groups, query_type, data, pc >>
    /\ UNCHANGED vecvars

set_position(pos) ==
    /\ pc = "running"
    /\ position' = pos
    /\ predicted_position' = None
    /\ update_flags' = BitOr(BitOr(update_flags, POSITION_CHANGED),
                             PREDICTED_POSITION_CHANGED)
    /\ calls' = Record("set_position")
    /\ UNCHANGED << proxy_handle, graph_index, shape, collision_groups,
                    query_type, data, pc >>
    /\ UNCHANGED vecvars

\* variant: the position is stored as the prediction
set_position_with_prediction_swapped(pos, prediction) ==
    /\ pc = "running"
    /\ position' = pos
    /\ predicted_position' = Some(pos)
    /\ update_flags' = BitOr(BitOr(update_flags, POSITION_CHANGED),
                             PREDICTED_POSITION_CHANGED)
    /\ calls' = Record("set_position_with_prediction")
    /\ UNCHANGED << proxy_handle, graph_index, shape, collision_groups,
                    query_type, data, pc >>
    /\ UNCHANGED vecvars

set_position_with_prediction(pos, prediction) ==
    /\ pc = "running"
    /\ position' = pos
    /\ predicted_position' = Some(prediction)
    /\ update_flags' = BitOr(BitOr(update_flags, POSITION_CHANGED),
                             PREDICTED_POSITION_CHANGED)
    /\ calls' = Record("set_position_with_prediction")
    /\ UNCHANGED << proxy_handle, graph_index, shape, collision_groups,
                    query_type, data, pc >>
    /\ UNCHANGED vecvars

\* variant: the flag is assigned (=) instead of ORed in (|=)
set_predicted_position_assign(pos) ==
    /\ pc = "running"
    /\ predicted_position' = pos
    /\ update_flags' = PREDICTED_POSITION_CHANGED
    /\ calls' = Record("set_predicted_position")
    /\ UNCHANGED << proxy_handle, graph_index, position, shape,
                    collision_groups, query_type, data, pc >>
    /\ UNCHANGED vecvars

\* variant: POSITION_CHANGED is raised as well
set_predicted_position_as_position(pos) ==
    /\ pc = "running"
    /\ predicted_position' = pos
    /\ update_flags' = BitOr(BitOr(update_flags, POSITION_CHANGED),
                             PREDICTED_POSITION_CHANGED)
    /\ calls' = Record("set_predicted_position")
    /\ UNCHANGED << proxy_handle, graph_index, position, shape,
                    collision_groups, query_type, data, pc >>
    /\ UNCHANGED vecvars

set_predicted_position(pos) ==
    /\ pc = "running"
    /\ predicted_position' = pos
    /\ update_flags' = BitOr(update_flags, PREDICTED_POSITION_CHANGED)
    /\ calls' = Record("set_predicted_position")
    /\ UNCHANGED << proxy_handle, graph_index, position, shape,
                    collision_groups, query_type, data, pc >>
    /\ UNCHANGED vecvars

\* Shape::as_deformable_shape_mut is Some exactly for a deformable shape.
as_deformable_shape_mut(sh) == sh.deformable

\* variant: SHAPE_CHANGED is raised instead of POSITION_CHANGED
set_deformations_shape_changed(coords) ==
    /\ pc = "running"
    /\ IF as_deformable_shape_mut(shape)
         THEN /\ shape' = [shape EXCEPT !.coords = coords]
              /\ pc' = pc
         ELSE /\ shape' = shape
              /\ pc' = "panicked"
    /\ update_flags' = BitOr(update_flags, SHAPE_CHANGED)
    /\ calls' = Record("set_deformations")
    /\ UNCHANGED << proxy_handle, graph_index, position, predicted_position,
                    collision_groups, query_type, data >>
    /\ UNCHANGED vecvars

\* The flag is raised first; expect() then panics on a non-deformable shape.
set_deformations(coords) ==
    /\ pc = "running"
    /\ IF as_deformable_shape_mut(shape)
         THEN /\ shape' = [shape EXCEPT !.coords = coords]
              /\ pc' = pc
         ELSE /\ shape' = shape
              /\ pc' = "panicked"
    /\ update_flags' = BitOr(update_flags, POSITION_CHANGED)
    /\ calls' = Record("set_deformations")
    /\ UNCHANGED << proxy_handle, graph_index, position, predicted_position,
                    collision_groups, query_type, data >>
    /\ UNCHANGED vecvars

\* variant: a new shape also drops the predicted position
set_shape_resets_prediction(sh) ==
    /\ pc = "running"
    /\ shape' = sh
    /\ predicted_position' = None
    /\ update_flags' = BitOr(update_flags, SHAPE_CHANGED)
    /\ calls' = Record("set_shape")
    /\ UNCHANGED << proxy_handle, graph_index, position,
                    collision_groups, query_type, data, pc >>
    /\ UNCHANGED vecvars

set_shape(sh) ==
    /\ pc = "running"
    /\ shape' = sh
    /\ update_flags' = BitOr(update_flags, SHAPE_CHANGED)
    /\ calls' = Record("set_shape")
    /\ UNCHANGED << proxy_handle, graph_index, position, predicted_position,
                    collision_groups, query_type, data, pc >>
    /\ UNCHANGED vecvars

set_collision_groups(groups) ==
    /\ pc = "running"
    /\ collision_groups' = groups
    /\ update_flags' = BitOr(update_flags, COLLISION_GROUPS_CHANGED)
    /\ calls' = Record("set_collision_groups")
    /\ UNCHANGED << proxy_handle, graph_index, position, predicted_position,
                    shape, query_type, data, pc >>
    /\ UNCHANGED vecvars

\* variant: the flag is not raised
set_query_type_no_flag(qt) ==
    /\ pc = "running"
    /\ query_type' = qt
    /\ calls' = Record("set_query_type")
    /\ UNCHANGED << proxy_handle, graph_index, position, predicted_position,
                    shape, collision_groups, update_flags, data, pc >>
    /\ UNCHANGED vecvars

set_query_type(qt) ==
    /\ pc = "running"
    /\ query_type' = qt
    /\ update_flags' = BitOr(update_flags, QUERY_TYPE_CHANGED)
    /\ calls' = Record("set_query_type")
    /\ UNCHANGED << proxy_handle, graph_index, position, predicted_position,
                    shape, collision_groups, data, pc >>
    /\ UNCHANGED vecvars

\* Hands out &mut data: the caller may store any payload through it.
data_mut(d) ==
    /\ pc = "running"
    /\ data' = d
    /\ UNCHANGED << proxy_handle, graph_index, position, predicted_position,
                    shape, collision_groups, query_type, update_flags, pc, calls >>
    /\ UNCHANGED vecvars

\* ------------------------------------------------- bounding volumes (AABB)
\* One axis is modelled: an Isometry is a translation along it and an AABB is
\* the interval [mins, maxs].  A shape spans half_extent on either side of
\* its position; a deformation changes the extent.
half_extent(sh) == 1 + sh.coords

\* bounding_volume::aabb: the minimal box enclosing the shape at the position
aabb(sh, pos) == [mins |-> pos - half_extent(sh), maxs |-> pos + half_extent(sh)]

\* BoundingVolume::loosen: enlarge by the margin on every side
loosen(box, margin) == [mins |-> box.mins - margin, maxs |-> box.maxs + margin]

\* BoundingVolume::merge: the minimal box enclosing both
merge(b1, b2) ==
    [mins |-> IF b1.mins <= b2.mins THEN b1.mins ELSE b2.mins,
     maxs |-> IF b1.maxs >= b2.maxs THEN b1.maxs ELSE b2.maxs]

\* GeometricQueryType::query_limit: the margin of the query type
query_limit(qt) == qt

compute_aabb ==
    loosen(aabb(shape, position), query_limit(query_type))

\* variant: the box at the predicted position is not loosened
compute_swept_aabb_one_margin ==
    IF predicted_position # None
      THEN LET predicted_pos == predicted_position[1]
               margin == query_limit(query_type)
               aabb1 == loosen(aabb(shape, position), margin)
               aabb2 == aabb(shape, predicted_pos)
           IN  merge(aabb1, aabb2)
      ELSE compute_aabb

compute_swept_aabb ==
    IF predicted_position # None
      THEN LET predicted_pos == predicted_position[1]
               margin == query_limit(query_type)
               aabb1 == loosen(aabb(shape, position), margin)
               aabb2 == loosen(aabb(shape, predicted_pos), margin)
           IN  merge(aabb1, aabb2)
      ELSE compute_aabb

\* ---------------------------------------------------------- specifications
Next ==
    \/ \E i \in Option(Handles) : set_graph_index(i)
    \/ \E b \in FlagConsts : update_flags_mut(BitXor(update_flags, b))
    \/ clear_update_flags
    \/ \E h \in Option(Handles) : set_proxy_handle(h)
    \/ \E p \in Positions : set_position(p)
    \/ \E p \in Positions, pr \in Positions : set_position_with_prediction(p, pr)
    \/ \E o \in Option(Positions) : set_predicted_position(o)
    \/ \E c \in Coords : set_deformations(c)
    \/ \E s \in Shapes : set_shape(s)
    \/ \E g \in Groups : set_collision_groups(g)
    \/ \E q \in QueryTypes : set_query_type(q)
    \/ \E d \in Payloads : data_mut(d)

Spec == Init /\ [][Next]_vars

\* Objects constructed without handles, as before they are registered with
\* the broad phase and the contact graph; every operation.
InitNoHandles ==
    /\ \E pos \in Positions, sh \in Shapes, groups \in Groups,
          qt \in QueryTypes, d \in Payloads :
            new(None, None, pos, sh, groups, qt, d)
    /\ pc = "running"
    /\ calls = {"new"}
    /\ NoVectors

SpecNoHandles == InitNoHandles /\ [][Next]_vars

\* The operations of the flag contract only: the six value setters that
\* cannot fail, the two handle setters and clear_update_flags.
NextSetters ==
    \/ \E i \in Option(Handles) : set_graph_index(i)
    \/ clear_update_flags
    \/ \E h \in Option(Handles) : set_proxy_handle(h)
    \/ \E p \in Positions : set_position(p)
    \/ \E p \in Positions, pr \in Positions : set_position_with_prediction(p, pr)
    \/ \E o \in Option(Positions) : set_predicted_position(o)
    \/ \E s \in Shapes : set_shape(s)
    \/ \E g \in Groups : set_collision_groups(g)
    \/ \E q \in QueryTypes : set_query_type(q)

SpecSetters == Init /\ [][NextSetters]_vars

\* Vector algebra on its own: one fixed object, vectors drawn from the
\* bounded components.
InitVec ==
    /\ new(None, None, 0, [deformable |-> FALSE, coords |-> 0], 0, 0, 0)
    /\ pc = "running"
    /\ calls = {"new"}
    /\ va \in Vectors(MaxComp)
    /\ vb \in Vectors(MaxComp)
    /\ vc \in Vectors(MaxCompC)
    /\ basis = << >>

NextVec ==
    \/ translate(vb)
    \/ VecSub
    \/ VecNeg
    \/ VecCross
    \/ scalar_mul_inplace(dot(vb, vc))
    \/ VecBasis

SpecVec == InitVec /\ [][NextVec]_vars

TypeOK ==
    /\ proxy_handle \in Option(Handles)
    /\ graph_index \in Option(Handles)
    /\ position \in Positions
    /\ predicted_position \in Option(Positions)
    /\ shape \in Shapes
    /\ collision_groups \in Groups
    /\ query_type \in QueryTypes
    /\ update_flags \in FlagWords
    /\ data \in Payloads
    /\ pc \in {"running", "panicked"}
    /\ va \in Vectors(MaxComp)
    /\ vb \in Vectors(MaxComp)
    /\ vc \in Vectors(MaxCompC)
    /\ Len(basis) \in {0, 2}

\* ------------------------------------------------------------------ claims
\* The set of flag constants present in a flag word, read bit by bit.
Bits(f) == {b \in FlagConsts : (f \div b) % 2 = 1}

\* The bits each call is documented to raise.
Raises(op) ==
    CASE op = "new" -> FlagConsts
      [] op = "set_position" -> {POSITION_CHANGED, PREDICTED_POSITION_CHANGED}
      [] op = "set_position_with_prediction" ->
             {POSITION_CHANGED, PREDICTED_POSITION_CHANGED}
      [] op = "set_predicted_position" -> {PREDICTED_POSITION_CHANGED}
      [] op = "set_shape" -> {SHAPE_CHANGED}
      [] op = "set_collision_groups" -> {COLLISION_GROUPS_CHANGED}
      [] op = "set_query_type" -> {QUERY_TYPE_CHANGED}
      [] OTHER -> {}

\* C1: under the six infallible setters, the handle setters and
\* clear_update_flags, update_flags holds exactly the union of the bits raised
\* by the calls made since the last clear (all five bits while no clear has
\* happened since new): none missing, none extra.
C1_FlagsAreUnionOfRaisedBits ==
    Bits(update_flags) = UNION {Raises(op) : op \in calls}

C1_Witness ==
    /\ calls = {"set_shape", "set_predicted_position"}
    /\ Bits(update_flags) = {SHAPE_CHANGED, PREDICTED_POSITION_CHANGED}

\* C2: for each of the 32 flag words, needs_broad_phase_update holds iff the
\* word is non-empty, needs_narrow_phase_update iff it has POSITION, SHAPE,
\* COLLISION_GROUPS or QUERY_TYPE, needs_bounding_volume_update iff it has
\* POSITION, SHAPE or QUERY_TYPE, needs_broad_phase_redispatch iff it has
\* SHAPE, COLLISION_GROUPS or QUERY_TYPE.
C2_PredicateTable ==
    /\ needs_broad_phase_update(update_flags) <=> Bits(update_flags) # {}
    /\ needs_narrow_phase_update(update_flags) <=>
         Bits(update_flags) \cap {POSITION_CHANGED, SHAPE_CHANGED,
                                  COLLISION_GROUPS_CHANGED, QUERY_TYPE_CHANGED} # {}
    /\ needs_bounding_volume_update(update_flags) <=>
         Bits(update_flags) \cap {POSITION_CHANGED, SHAPE_CHANGED,
                                  QUERY_TYPE_CHANGED} # {}
    /\ needs_broad_phase_redispatch(update_flags) <=>
         Bits(update_flags) \cap {SHAPE_CHANGED, COLLISION_GROUPS_CHANGED,
                                  QUERY_TYPE_CHANGED} # {}

C2_Witness ==
    /\ Bits(update_flags) = {POSITION_CHANGED}
    /\ needs_bounding_volume_update(update_flags)
    /\ ~needs_broad_phase_redispatch(update_flags)

\* C3: a freshly constructed object has all five flags set, all four
\* predicates true and no predicted position; right after clear_update_flags
\* the flag word is empty and all four predicates are false.
C3_FreshAndCleared ==
    /\ (/\ Bits(update_flags) = FlagConsts
        /\ needs_broad_phase_update(update_flags)
        /\ needs_narrow_phase_update(update_flags)
        /\ needs_bounding_volume_update(update_flags)
        /\ needs_broad_phase_redispatch(update_flags)
        /\ predicted_position = None)
    /\ [](calls = {} =>
            /\ Bits(update_flags) = {}
            /\ ~needs_broad_phase_update(update_flags)
            /\ ~needs_narrow_phase_update(update_flags)
            /\ ~needs_bounding_volume_update(update_flags)
            /\ ~needs_broad_phase_redispatch(update_flags))

C3_Witness ==
    /\ calls = {}
    /\ update_flags = empty
    /\ predicted_position # None

\* C4 (as stated): between two clear_update_flags no operation of the public
\* interface, update_flags_mut included, removes a bit from update_flags.
C4_NoOperationRemovesABit ==
    [][clear_update_flags \/ Bits(update_flags) \subseteq Bits(update_flags')]_vars

\* C4 (amended): no operation other than clear_update_flags and a write
\* through update_flags_mut removes a bit from update_flags.
C4_OnlyClearAndFlagsMutRemoveBits ==
    [][\/ clear_update_flags
       \/ \E f \in FlagWords : update_flags_mut(f)
       \/ Bits(update_flags) \subseteq Bits(update_flags')]_vars

C4_Witness ==
    /\ calls = {"set_shape", "set_collision_groups", "set_predicted_position"}
    /\ Bits(update_flags) =
         {SHAPE_CHANGED, COLLISION_GROUPS_CHANGED, PREDICTED_POSITION_CHANGED}

C6_SetPosition ==
    [][\A p \in Positions : set_position(p) =>
          /\ position' = p
          /\ predicted_position' = None
          /\ {POSITION_CHANGED, PREDICTED_POSITION_CHANGED} \subseteq Bits(update_flags')
          /\ Bits(update_flags) \subseteq Bits(update_flags')]_vars

\* set_position acted last on an object that had been given a prediction
C6_Witness ==
    /\ calls = {"set_position_with_prediction", "set_position"}
    /\ predicted_position = None
    /\ Bits(update_flags) = {POSITION_CHANGED, PREDICTED_POSITION_CHANGED}

\* C7: set_position_with_prediction(p, pr) leaves position = p and
\* predicted position = Some(pr), and raises POSITION_CHANGED and
\* PREDICTED_POSITION_CHANGED.
C7_SetPositionWithPrediction ==
    [][\A p \in Positions, pr \in Positions :
          set_position_with_prediction(p, pr) =>
            /\ position' = p
            /\ predicted_position' = Some(pr)
            /\ Bits(update_flags') = Bits(update_flags)
                 \cup {POSITION_CHANGED, PREDICTED_POSITION_CHANGED}]_vars

C7_Witness ==
    /\ calls = {"set_position_with_prediction"}
    /\ predicted_position # None
    /\ predicted_position # Some(position)
    /\ Bits(update_flags) = {POSITION_CHANGED, PREDICTED_POSITION_CHANGED}

\* C8: when set_collision_groups(g) is the only mutation since the last
\* clear, broad-phase update, narrow-phase update and redispatch are needed,
\* a bounding-volume update is not, and collision_groups is g.
C8_CollisionGroupsAlone ==
    /\ [](calls = {"set_collision_groups"} =>
            /\ needs_broad_phase_update(update_flags)
            /\ needs_narrow_phase_update(update_flags)
            /\ ~needs_bounding_volume_update(update_flags)
            /\ needs_broad_phase_redispatch(update_flags))
    /\ [][\A g \in Groups : set_collision_groups(g) => collision_groups' = g]_vars

C8_Witness ==
    /\ calls = {"set_collision_groups"}
    /\ collision_groups = MaxGroups
    /\ update_flags = COLLISION_GROUPS_CHANGED

\* C9: set_predicted_position raises PREDICTED_POSITION_CHANGED only; when it
\* is the only mutation since the last clear, only the broad-phase update is
\* needed; the predicted position is the one given and the position is kept.
C9_PredictedPositionAlone ==
    /\ [](calls = {"set_predicted_position"} =>
            /\ needs_broad_phase_update(update_flags)
            /\ ~needs_narrow_phase_update(update_flags)
            /\ ~needs_bounding_volume_update(update_flags)
            /\ ~needs_broad_phase_redispatch(update_flags))
    /\ [][\A o \in Option(Positions) : set_predicted_position(o) =>
            /\ predicted_position' = o
            /\ position' = position
            /\ Bits(update_flags') =
                 Bits(update_flags) \cup {PREDICTED_POSITION_CHANGED}]_vars

C9_Witness ==
    /\ calls = {"set_predicted_position"}
    /\ predicted_position # None
    /\ update_flags = PREDICTED_POSITION_CHANGED

\* C10: set_deformations on a non-deformable shape panics before mutating
\* anything: at the panic every field, update_flags included, has the value
\* it had before the call.
C10_FailsBeforeMutating ==
    [][pc' = "panicked" => UNCHANGED fields]_vars

\* C11: the predicted position is Some(pr) only if the latest of new,
\* set_position, set_position_with_prediction and set_predicted_position was
\* set_position_with_prediction(_, pr) or set_predicted_position(Some(pr)):
\* it is None at construction, no step of set_position leaves a prediction,
\* no step of set_position_with_prediction(_, pr) or set_predicted_position(o)
\* leaves a value other than Some(pr) or o, and no other operation changes it.
\* (A setter stores its position argument, so the step's argument is position'.)
C11_PredictionOnlyFromSetters ==
    /\ predicted_position = None
    /\ [][/\ predicted_position' # predicted_position =>
               \/ set_position(position')
               \/ \E pr \in Positions : set_position_with_prediction(position', pr)
               \/ set_predicted_position(predicted_position')
          /\ predicted_position' # None => ~set_position(position')
          /\ \A pr \in Positions : predicted_position' # Some(pr) =>
                 ~set_position_with_prediction(position', pr)
          /\ \A o \in Option(Positions) : predicted_position' # o =>
                 ~set_predicted_position(o)]_vars

\* a prediction set before the clear survives the clear and a later set_shape
C11_Witness ==
    /\ calls = {"set_shape", "set_query_type"}
    /\ predicted_position = Some(MaxPos)
    /\ position = 0

\* C12: after a clear, any sequence of set_position,
\* set_position_with_prediction and set_predicted_position calls leaves
\* needs_broad_phase_redispatch false.
MotionSetters ==
    {"set_position", "set_position_with_prediction", "set_predicted_position"}
C12_MotionNeverRedispatches ==
    calls \subseteq MotionSetters => ~needs_broad_phase_redispatch(update_flags)

C12_Witness ==
    /\ calls = MotionSetters
    /\ Bits(update_flags) = {POSITION_CHANGED, PREDICTED_POSITION_CHANGED}
    /\ ~needs_broad_phase_redispatch(update_flags)

C17_DeformationRaisesPositionOnly ==
    /\ []((calls = {"set_deformations"} /\ pc = "running") =>
            /\ Bits(update_flags) = {POSITION_CHANGED}
            /\ needs_broad_phase_update(update_flags)
            /\ needs_narrow_phase_update(update_flags)
            /\ needs_bounding_volume_update(update_flags)
            /\ ~needs_broad_phase_redispatch(update_flags))
    /\ [][(pc' = "running" /\ set_deformations(shape'.coords)) =>
            /\ Bits(update_flags') = Bits(update_flags) \cup {POSITION_CHANGED}
            /\ position' = position
            /\ predicted_position' = predicted_position]_vars

C17_Witness ==
    /\ calls = {"set_deformations"}
    /\ pc = "running"
    /\ shape.coords = MaxCoord
    /\ update_flags = POSITION_CHANGED
    /\ predicted_position # None

\* C18: the predicates are ordered: a bounding-volume update or a redispatch
\* implies a narrow-phase update, which implies a broad-phase update; the only
\* non-empty flag set without a narrow-phase update is
\* {PREDICTED_POSITION_CHANGED}.
C18_PredicatesAreOrdered ==
    /\ needs_bounding_volume_update(update_flags) =>
         needs_narrow_phase_update(update_flags)
    /\ needs_broad_phase_redispatch(update_flags) =>
         needs_narrow_phase_update(update_flags)
    /\ needs_narrow_phase_update(update_flags) =>
         needs_broad_phase_update(update_flags)
    /\ (Bits(update_flags) # {} /\ ~needs_narrow_phase_update(update_flags)) =>
         Bits(update_flags) = {PREDICTED_POSITION_CHANGED}

C18_Witness ==
    /\ Bits(update_flags) = {QUERY_TYPE_CHANGED}
    /\ needs_bounding_volume_update(update_flags)
    /\ needs_broad_phase_redispatch(update_flags)
    /\ needs_narrow_phase_update(update_flags)
    /\ position # 0

\* C19: each value setter changes its own field(s) and update_flags only, and
\* clear_update_flags changes update_flags only; none of them changes
\* proxy_handle, graph_index or data.
C19_SettersFrame ==
    [][/\ set_position(position') =>
            UNCHANGED << shape, collision_groups, query_type,
                         proxy_handle, graph_index, data >>
       /\ (predicted_position' # None
            /\ set_position_with_prediction(position', predicted_position'[1])) =>
            UNCHANGED << shape, collision_groups, query_type,
                         proxy_handle, graph_index, data >>
       /\ set_predicted_position(predicted_position') =>
            UNCHANGED << position, shape, collision_groups, query_type,
                         proxy_handle, graph_index, data >>
       /\ set_shape(shape') =>
            UNCHANGED << position, predicted_position, collision_groups,
                         query_type, proxy_handle, graph_index, data >>
       /\ set_collision_groups(collision_groups') =>
            UNCHANGED << position, predicted_position, shape, query_type,
                         proxy_handle, graph_index, data >>
       /\ set_query_type(query_type') =>
            UNCHANGED << position, predicted_position, shape, collision_groups,
                         proxy_handle, graph_index, data >>
       /\ clear_update_flags =>
            UNCHANGED << position, predicted_position, shape, collision_groups,
                         query_type, proxy_handle, graph_index, data >>]_vars

C19_Witness ==
    /\ calls = {"set_shape"}
    /\ shape.deformable
    /\ Bits(update_flags) = {SHAPE_CHANGED}
    /\ predicted_position # None

\* C13: without a predicted position compute_swept_aabb is compute_aabb; with
\* one it is the minimal box enclosing the box at position and the box at the
\* prediction, each loosened by the query limit, so it contains the
\* compute_aabb box.  Both read the object and change nothing.
Boxes ==
    LET reach == MaxPos + 1 + MaxCoord + MaxMargin
    IN  {[mins |-> lo, maxs |-> hi] : lo \in (0 - reach)..reach, hi \in (0 - reach)..reach}
Contains(outer, inner) == outer.mins <= inner.mins /\ inner.maxs <= outer.maxs
C13_SweptAabb ==
    /\ predicted_position = None => compute_swept_aabb = compute_aabb
    /\ predicted_position # None =>
         LET here == loosen(aabb(shape, position), query_limit(query_type))
             there == loosen(aabb(shape, predicted_position[1]), query_limit(query_type))
         IN  /\ Contains(compute_swept_aabb, here)
             /\ Contains(compute_swept_aabb, there)
             /\ \A box \in Boxes :
                  (Contains(box, here) /\ Contains(box, there)) =>
                      Contains(box, compute_swept_aabb)
             /\ compute_swept_aabb \in Boxes
             /\ Contains(compute_swept_aabb, compute_aabb)

C13_Witness ==
    /\ predicted_position = Some(MaxPos)
    /\ position = 0
    /\ query_type = MaxMargin
    /\ compute_swept_aabb # compute_aabb
    /\ compute_swept_aabb.maxs - compute_swept_aabb.mins
         = MaxPos + 2 * (half_extent(shape) + MaxMargin)

\* C15: for all vectors a, b, c of bounded integer components: a + b = b + a,
\* (a + b) + c = a + (b + c), a - a = 0, a x a = 0, a . b = b . a and
\* a x b = -(b x a).
C15_VectorLaws ==
    /\ add(va, vb) = add(vb, va)
    /\ add(add(va, vb), vc) = add(va, add(vb, vc))
    /\ sub(va, va) = zero
    /\ cross(va, va) = zero
    /\ dot(va, vb) = dot(vb, va)
    /\ cross(va, vb) = neg(cross(vb, va))

C15_Witness ==
    /\ va = vec3(1, 0, 0)
    /\ vb = vec3(0, 1, 0)
    /\ vc = vec3(0, 0, 1)
    /\ cross(va, vb) = vc
    /\ cross(vb, va) = neg(vc)

\* C16: orthogonal_subspace_basis(v) builds its candidate from (z, 0, -x) when
\* |x| > |y| and from (0, -z, y) otherwise (ties included), and returns
\* [candidate / norm, (candidate / norm) x v] in that order; for v = (1,0,0)
\* and for every non-zero v the two vectors are orthogonal to each other and
\* to v.
C16_BasisTieBreakAndOrthogonality ==
    basis # << >> =>
      LET candidate == IF abs(vc.x) > abs(vc.y)
                         THEN vec3(vc.z, 0, 0 - vc.x)
                         ELSE vec3(0, 0 - vc.z, vc.y)
          first == basis[1]
          second == basis[2]
      IN  /\ Len(basis) = 2
          /\ first.num = candidate
          /\ first.den2 = sqnorm(candidate)
          /\ second.num = cross(candidate, vc)
          /\ second.den2 = first.den2
          /\ vc # zero =>
               /\ first.den2 > 0
               /\ dot(first.num, second.num) = 0
               /\ dot(first.num, vc) = 0
               /\ dot(second.num, vc) = 0
               /\ second.num # zero
          /\ vc = vec3(1, 0, 0) =>
               /\ first = [num |-> vec3(0, 0, 0 - 1), den2 |-> 1]
               /\ second = [num |-> vec3(0, 0 - 1, 0), den2 |-> 1]

\* a tie |x| = |y| # 0, decided for the second branch
C16_Witness ==
    /\ vc = vec3(1, 1, 0)
    /\ basis # << >>
    /\ basis[1] = [num |-> vec3(0, 0, 1), den2 |-> 1]
    /\ basis[2] = [num |-> vec3(0 - 1, 1, 0), den2 |-> 1]

\* C20: for every non-zero v the candidate chosen by the |x| > |y| test is
\* non-zero and has dot product 0 with v, so the norm divided by is non-zero;
\* only v = (0,0,0) gives a zero candidate, through the else branch, and with
\* it a division by a zero norm.
C20_OnlyZeroIsDegenerate ==
    basis # << >> =>
      /\ vc # zero =>
           /\ basis[1].num # zero
           /\ dot(basis[1].num, vc) = 0
           /\ basis[1].den2 # 0
      /\ vc = zero =>
           /\ ~(abs(vc.x) > abs(vc.y))
           /\ basis[1].num = zero
           /\ basis[1].den2 = 0

C20_Witness ==
    /\ vc = zero
    /\ basis # << >>
    /\ basis[1].den2 = 0
====
